---- MODULE Spec2Model ----
(***************************************************************************)
(* lfg-backend: the per-route permission pipeline (gin handler chains of   *)
(* GetAPI), the middlewares and endpoints, and the two stored entities     *)
(* (users, groups with their joined_groups membership rows).               *)
(*                                                                         *)
(* One request is in flight at a time (Spec); it advances one handler of   *)
(* its chain per step.  The request's inputs (header, URL id, body, the    *)
(* outcome of each database call) are chosen when the handler reads them.  *)
(* The context c also keeps what the request was and which handlers ran,   *)
(* and pre keeps the database as it was when the request arrived.          *)
(*                                                                         *)
(* SpecConcurrent has join requests in flight on several connections at    *)
(* once (net/http serves each connection in a goroutine of its own); conns *)
(* holds their contexts, and their handlers interleave on the one          *)
(* database.                                                               *)
(***************************************************************************)
EXTENDS Integers, Sequences, FiniteSets, TLC

VARIABLES users, groups, c, pre, alive, conns

vars == <<users, groups, c, pre, alive, conns>>

(* ------------------------------ bounds -------------------------------- *)

MaxUsers == 3

MaxGroups == 1

\* SpecConcurrent: the connections served at once, and the stored accounts.
MaxConns == 2

MaxAccounts == 6

(* ------------------------- program constants -------------------------- *)

StatusOpen == 0

StatusClosed == -100

minSize == 5

maxSize == 200

maxTitleLen == 50

maxDescLen == 200

maxUsernameLen == 50

minPasswordLen == 8

maxPasswordLen == 200

\* gin's abortIndex (math.MaxInt8 >> 1): the handler index Abort* sets.
abortIndex == 63

(* ------------------------------ strings ------------------------------- *)

\* A string is the sequence of its characters; Str(n, ch) is ch repeated.
Str(n, ch) == [i \in 1..n |-> ch]

Empty == Str(0, "x")

\* Go's int16 conversion (two's complement wrap-around).
Int16(x) == ((x + 32768) % 65536) - 32768

(* ------------------------------ schemas ------------------------------- *)

\* schemas.Group{} : the zero value.
ZeroGroup ==
  [ID |-> 0, Title |-> Empty, Description |-> Empty, Status |-> 0,
   Password |-> Empty, MaxSize |-> 0, OwnerID |-> 0, Members |-> {}]

\* schemas.User{} : the zero value.
ZeroUser == [ID |-> 0, Username |-> Empty, Password |-> Empty]

IsFull(g) == Int16(g.MaxSize - 1) = Int16(Cardinality(g.Members))

IsMember(g, uid) == uid \in g.Members

\* IsOpen taking every status that is not positive for open.
IsOpenLoose(g) == g.Status <= 0

IsOpen(g) == g.Status = 0

\* IsOwner comparing the user with the group's own id.
IsOwnerByGroupID(g, uid) == g.ID = uid

IsOwner(g, uid) == g.OwnerID = uid

IsPrivate(g) == g.Password # Empty

\* ValidatePassword asking only for some password.
ValidatePasswordPresent(g, pw) ==
  IF pw = Empty THEN "incorrect group password" ELSE "nil"

\* nil is "nil"; otherwise the error's message.
ValidatePassword(g, pw) ==
  IF g.Password # pw THEN "incorrect group password" ELSE "nil"

\* ValidateForCreate without the upper limit on max_size.
ValidateForCreateNoUpperSize(g) ==
  (IF g.Title = Empty \/ Len(g.Title) > maxTitleLen
     THEN <<"title">> ELSE <<>>)
  \o (IF g.Description = Empty \/ Len(g.Description) > maxDescLen
        THEN <<"description">> ELSE <<>>)
  \o (IF g.MaxSize < minSize THEN <<"max_size">> ELSE <<>>)

\* The field errors of ValidateForCreate, in the order they are appended.
ValidateForCreate(g) ==
  (IF g.Title = Empty \/ Len(g.Title) > maxTitleLen
     THEN <<"title">> ELSE <<>>)
  \o (IF g.Description = Empty \/ Len(g.Description) > maxDescLen
        THEN <<"description">> ELSE <<>>)
  \o (IF g.MaxSize < minSize \/ g.MaxSize > maxSize
        THEN <<"max_size">> ELSE <<>>)

ValidateForSignUp(u) ==
  (IF u.Username = Empty \/ Len(u.Username) > maxUsernameLen
     THEN <<"username">> ELSE <<>>)
  \o (IF u.Password = Empty \/ Len(u.Password) < minPasswordLen
           \/ Len(u.Password) > maxPasswordLen
        THEN <<"password">> ELSE <<>>)

\* bcrypt.GenerateFromPassword / CompareHashAndPassword: the hash is not the
\* password, and a hash matches exactly the password it was made from.
BeforeCreate(u) == [u EXCEPT !.Password = <<"$2a$04$">> \o @]

CompareHashAndPassword(hash, pw) == hash = <<"$2a$04$">> \o pw

(* ------------------------------ database ------------------------------ *)

\* A database call returns nil ("nil") or an error message.  The argument e
\* is the outcome the database gives the call apart from what the rows
\* decide: "nil", or "io" for any failure of the connection or the file.
DbOutcomes == {"nil", "io"}

\* data.CreateConnection via InitDB: a failed gorm.Open is logged with
\* log.Fatalf, which ends the process (exit is TRUE).
InitDB(e) == [err |-> e, exit |-> e # "nil"]

\* RetrieveWithPassword's column list without "status".
RetrieveWithPasswordFieldsNoStatus ==
  {"id", "title", "description", "password", "max_size", "created_at",
   "owner_id"}

\* The columns RetrieveWithPassword selects.
RetrieveWithPasswordFields ==
  {"id", "title", "description", "password", "status", "max_size",
   "created_at", "owner_id"}

\* The columns Retrieve selects (no password).
RetrieveFields ==
  {"id", "title", "description", "status", "max_size", "created_at",
   "owner_id"}

\* The Group that First fills from row gid: the selected columns, the zero
\* value for the others, and the preloaded members.
SelectGroup(db, gid, fields) ==
  [ID |-> gid,
   Title |-> IF "title" \in fields THEN db[gid].Title ELSE Empty,
   Description |->
     IF "description" \in fields THEN db[gid].Description ELSE Empty,
   Status |-> IF "status" \in fields THEN db[gid].Status ELSE 0,
   Password |-> IF "password" \in fields THEN db[gid].Password ELSE Empty,
   MaxSize |-> IF "max_size" \in fields THEN db[gid].MaxSize ELSE 0,
   OwnerID |-> IF "owner_id" \in fields THEN db[gid].OwnerID ELSE 0,
   Members |-> db[gid].Members]

\* retrieveGroup: any error of First, "record not found" included, is logged
\* with log.Fatalf before it is returned.
retrieveGroup(db, gid, fields, e) ==
  LET err == IF e # "nil" THEN e
             ELSE IF gid \notin DOMAIN db THEN "record not found"
             ELSE "nil"
  IN [err |-> err, exit |-> err # "nil",
      g |-> IF err = "nil" THEN SelectGroup(db, gid, fields)
            ELSE [ZeroGroup EXCEPT !.ID = gid]]

RetrieveWithPassword(db, gid, e) ==
  retrieveGroup(db, gid, RetrieveWithPasswordFields, e)

\* The row an INSERT of g makes: the next row id, and the column defaults
\* (status 0, max_size 5) for zero values.
NewRow(g, id) ==
  [g EXCEPT !.ID = id, !.MaxSize = IF @ = 0 THEN 5 ELSE @]

\* Group.Create: INSERT of a new row.  Errors are logged with log.Fatalf.
GroupCreate(db, g, e) ==
  [err |-> e, exit |-> e # "nil",
   db |-> IF e # "nil" THEN db ELSE Append(db, NewRow(g, Len(db) + 1)),
   g |-> IF e # "nil" THEN g ELSE NewRow(g, Len(db) + 1)]

\* Group.List: every row, without the password column.
GroupList(db, e) ==
  [err |-> e, exit |-> e # "nil",
   groups |-> IF e # "nil" THEN <<>>
              ELSE [i \in DOMAIN db |->
                      SelectGroup(db, i, RetrieveFields)]]

\* Group.Update: Save writes every column of g to its row and upserts the
\* joined_groups rows of g.Members (rows of other members are not deleted).
\* Errors are logged with log.Fatalf.
GroupUpdate(db, g, e) ==
  [err |-> e, exit |-> e # "nil",
   db |-> IF e # "nil" \/ g.ID \notin DOMAIN db THEN db
          ELSE [db EXCEPT ![g.ID] =
                  [g EXCEPT !.Members = db[g.ID].Members \cup g.Members]]]

\* RemoveMember deleting every joined_groups row of the group.
RemoveMemberAll(db, g, u, e) ==
  [err |-> e, exit |-> e # "nil",
   db |-> IF e # "nil" \/ g.ID \notin DOMAIN db THEN db
          ELSE [db EXCEPT ![g.ID].Members = {}]]

\* Group.RemoveMember: deletes the joined_groups row (g.ID, u.ID).
RemoveMember(db, g, u, e) ==
  [err |-> e, exit |-> e # "nil",
   db |-> IF e # "nil" \/ g.ID \notin DOMAIN db THEN db
          ELSE [db EXCEPT ![g.ID].Members = @ \ {u.ID}]]

\* User.Create: the BeforeCreate hook hashes the password; the username
\* column is unique.  Errors are logged with log.Fatalf.
UserCreate(udb, u, e) ==
  LET err == IF e # "nil" THEN e
             ELSE IF \E i \in DOMAIN udb : udb[i].Username = u.Username
               THEN "UNIQUE constraint failed: users.username"
             ELSE "nil"
      row == [BeforeCreate(u) EXCEPT !.ID = Len(udb) + 1]
  IN [err |-> err, exit |-> err # "nil",
      db |-> IF err = "nil" THEN Append(udb, row) ELSE udb,
      u |-> IF err = "nil" THEN row ELSE u]

\* User.Retrieve: by id, without the password column; errors are logged
\* with log.Fatalf.
UserRetrieve(udb, u, e) ==
  LET err == IF e # "nil" THEN e
             ELSE IF u.ID \notin DOMAIN udb THEN "record not found"
             ELSE "nil"
  IN [err |-> err, exit |-> err # "nil",
      u |-> IF err = "nil" THEN [udb[u.ID] EXCEPT !.Password = Empty] ELSE u]

\* User.RetrieveByUsername: errors are logged with log.Errorf (not fatal).
RetrieveByUsername(udb, u, e) ==
  LET hit == {i \in DOMAIN udb : udb[i].Username = u.Username}
      err == IF e # "nil" THEN e
             ELSE IF hit = {} THEN "record not found"
             ELSE "nil"
  IN [err |-> err, exit |-> FALSE,
      u |-> IF err = "nil" THEN udb[CHOOSE i \in hit : TRUE] ELSE u]

(* ------------------------- routes and contexts ------------------------ *)

\* GetAPI: the handler chain each route registers (the group's
\* AuthenticateRequests first on every private route).
Handlers(route) ==
  CASE route = "close" ->
         <<"AuthenticateRequests", "GroupObject", "AllowIfUserIsOwner",
           "AllowIfGroupIsOpen", "CloseGroup">>
    [] route = "list" -> <<"AuthenticateRequests", "ListGroups">>
    [] route = "create" ->
         <<"AuthenticateRequests", "GroupRequestBody", "CreateGroup">>
    [] route = "update" ->
         <<"AuthenticateRequests", "GroupObject", "AllowIfUserIsOwner",
           "AllowIfGroupIsOpen", "GroupRequestBody", "UpdateGroup">>
    [] route = "password" ->
         <<"AuthenticateRequests", "GroupObject", "AllowIfUserIsOwner",
           "AllowIfGroupIsOpen", "GroupRequestBody", "UpdateGroupPassword">>
    [] route = "retrieve" ->
         <<"AuthenticateRequests", "GroupObject", "RetrieveGroup">>
    [] route = "join" ->
         <<"AuthenticateRequests", "GroupObject", "AllowIfGroupIsNotFull",
           "AllowIfUserIsNotMember", "AllowIfUserIsNotOwner",
           "AllowIfGroupIsOpen", "AllowIfCorrectGroupPassword", "JoinGroup">>
    [] route = "leave" ->
         <<"AuthenticateRequests", "GroupObject", "AllowIfGroupIsOpen",
           "AllowIfUserIsMember", "LeaveGroup">>
    [] route = "kick" ->
         <<"AuthenticateRequests", "UserRequestBody", "GroupObject",
           "AllowIfGroupIsOpen", "AllowIfUserIsOwner", "KickFromGroup">>
    [] route = "sign-up" -> <<"UserRequestBody", "SignUp">>
    [] route = "sign-in" -> <<"UserRequestBody", "SignIn">>
    [] OTHER -> <<>>

Routes ==
  {"close", "list", "create", "update", "password", "retrieve", "join",
   "leave", "kick", "sign-up", "sign-in"}

\* The routes registered on privateEndpoints.
PrivateRoutes == Routes \ {"sign-up", "sign-in"}

NoHeader == [kind |-> "none", user_id |-> 0]

NoParam == [err |-> FALSE, n |-> 0]

NoBody == [kind |-> "unread", g |-> ZeroGroup, u |-> ZeroUser]

\* A fresh gin.Context for a request on route: index -1, no keys, nothing
\* written.  token, param, body and dberr record what the request turned out
\* to carry and the first database error it met; ran lists the handlers that
\* have run; by names the handler that wrote the response.
NewContext(route) ==
  [route |-> route, index |-> -1, keys |-> {}, user_id |-> 0,
   obj |-> ZeroGroup, req |-> NoBody, status |-> 0, msg |-> "",
   ferrs |-> <<>>, by |-> "none", ran |-> <<>>, token |-> NoHeader,
   param |-> NoParam, body |-> NoBody, dberr |-> "nil"]

\* The handler the engine's loop runs next, "none" once index is past the
\* chain (the request is finished, or no request has arrived).
Current(cx) ==
  IF cx.index >= 0 /\ cx.index < Len(Handlers(cx.route))
    THEN Handlers(cx.route)[cx.index + 1]
    ELSE "none"

\* c.Next(): index++, after which the loop runs the handlers from index on.
Next_(cx) == [cx EXCEPT !.index = @ + 1]

\* A handler returning without c.Next(): the calling loop's c.index++.
Return(cx) == [cx EXCEPT !.index = @ + 1]

\* The response writer keeps the first status and body written.
Render(cx, code, msg, ferrs) ==
  IF cx.status # 0 THEN cx
  ELSE [cx EXCEPT !.status = code, !.msg = msg, !.ferrs = ferrs,
                  !.by = Current(cx)]

\* c.JSON(code, obj)
JSON(cx, code) == Render(cx, code, "", <<>>)

\* AbortWithStatusJSON writing the response without moving the index.
AbortWithStatusJSONNoStop(cx, code, msg) == Render(cx, code, msg, <<>>)

\* c.AbortWithStatusJSON(code, body): Abort (index = abortIndex), then the
\* body is written.
AbortWithStatusJSON(cx, code, msg) ==
  [Render(cx, code, msg, <<>>) EXCEPT !.index = abortIndex]

AbortWithFieldErrors(cx, code, msg, ferrs) ==
  [Render(cx, code, msg, ferrs) EXCEPT !.index = abortIndex]

\* gin.Default()'s Recovery middleware: a panic in a handler is answered
\* with AbortWithStatus(500).
Recovery(cx) == Return([Render(cx, 500, "", <<>>) EXCEPT !.index = abortIndex])

BodyInternalServerError == "An internal error occurred in the server"

BodyNotFound == "The requested resource could not be found"

InternalServerError(cx) ==
  Return(AbortWithStatusJSON(cx, 500, BodyInternalServerError))

\* c.Set(key, value)
SetUserID(cx, uid) ==
  [cx EXCEPT !.keys = @ \cup {"user_id"}, !.user_id = uid]

SetObj(cx, g) == [cx EXCEPT !.keys = @ \cup {"obj"}, !.obj = g]

SetReq(cx, b) == [cx EXCEPT !.keys = @ \cup {"req"}, !.req = b]

\* strings.Contains on the error messages that occur.
Contains(s, sub) ==
  \/ s = sub
  \/ /\ s = "unexpected signing method. Method: map[alg:RS256 typ:JWT]"
     /\ sub = "unexpected signing method"

\* What a handler leaves: the context, the database, and whether the process
\* has exited (log.Fatalf).
Out(cx, gdb, udb, x) == [c |-> cx, groups |-> gdb, users |-> udb, exit |-> x]

Keep(cx) == Out(cx, groups, users, FALSE)

\* A database error is remembered in dberr.
Failed(cx, err) == [cx EXCEPT !.dberr = IF @ = "nil" THEN err ELSE @]

Fatal(cx, err) == Out(Failed(cx, err), groups, users, TRUE)

(* ---------------------------- middlewares ----------------------------- *)

\* parseJwt reading the claims without checking the signature.
parseJwtUnverified(t) ==
  [panic |-> t.kind = "malformed",
   err |-> IF t.kind = "nonhmac"
             THEN "unexpected signing method. Method: map[alg:RS256 typ:JWT]"
           ELSE "nil",
   user_id |-> t.user_id]

\* parseJwt on a token of each kind.  A token that is not three segments
\* makes jwt.Parse return a nil token, which token.Claims dereferences
\* (panic); a token signed with a non-HMAC method is refused by the key
\* function; a token whose HMAC signature does not verify is invalid.
parseJwt(t) ==
  [panic |-> t.kind = "malformed",
   err |-> IF t.kind = "nonhmac"
             THEN "unexpected signing method. Method: map[alg:RS256 typ:JWT]"
           ELSE IF t.kind = "badsig" THEN "signature is invalid"
           ELSE "nil",
   user_id |-> IF t.kind = "valid" THEN t.user_id ELSE 0]

\* AuthenticateRequests on a request whose Authorization header is h.
AuthenticateRequests(cx, h) ==
  LET c1 == [cx EXCEPT !.token = h]
      p == parseJwt(h)
  IN IF h.kind = "none"
       THEN Keep(Return(AbortWithStatusJSON(
                          c1, 401, "Authorization header is missing")))
     ELSE IF h.kind = "nospace"
       \* strings.Split(ah, " ")[1] : index out of range
       THEN Keep(Recovery(c1))
     ELSE IF p.panic
       THEN Keep(Recovery(c1))
     ELSE IF p.err # "nil"
       THEN IF Contains(p.err, "unexpected signing method")
              THEN Keep(Return(AbortWithStatusJSON(
                                 c1, 401, "Token is invalid")))
              ELSE Keep(InternalServerError(c1))
     ELSE Keep(Next_(SetUserID(c1, p.user_id)))

\* GroupObject on a request whose :id parameter is p; e1 and e2 are the
\* outcomes of InitDB and of RetrieveWithPassword.
GroupObject(cx, p, e1, e2) ==
  LET c1 == [cx EXCEPT !.param = p]
      i == InitDB(e1)
      r == RetrieveWithPassword(groups, p.n, e2)
  IN IF p.err
       THEN Keep(InternalServerError(c1))
     ELSE IF i.exit
       THEN Fatal(c1, i.err)
     ELSE IF i.err # "nil"
       THEN Keep(InternalServerError(Failed(c1, i.err)))
     ELSE IF r.exit
       THEN Fatal(c1, r.err)
     ELSE IF r.err # "nil"
       THEN IF Contains(r.err, "record not found")
              THEN Keep(Return(AbortWithStatusJSON(
                                 Failed(c1, r.err), 404, BodyNotFound)))
              ELSE Keep(InternalServerError(Failed(c1, r.err)))
     ELSE Keep(Next_(SetObj(c1, r.g)))

\* GroupRequestBody on a request whose body is b.
GroupRequestBody(cx, b) ==
  LET c1 == [cx EXCEPT !.body = b]
  IN IF b.kind # "json"
       THEN Keep(InternalServerError(c1))
       ELSE Keep(Next_(SetReq(c1, [b EXCEPT !.u = ZeroUser])))

\* UserRequestBody on a request whose body is b.
UserRequestBody(cx, b) ==
  LET c1 == [cx EXCEPT !.body = b]
  IN IF b.kind # "json"
       THEN Keep(InternalServerError(c1))
       ELSE Keep(Next_(SetReq(c1, [b EXCEPT !.g = ZeroGroup])))

\* AllowIfGroupIsNotFull: on a full group it aborts without returning, and
\* calls c.Next() all the same.
AllowIfGroupIsNotFull(cx) ==
  IF "obj" \notin cx.keys
    THEN Keep(InternalServerError(cx))
    ELSE Keep(Next_(IF IsFull(cx.obj)
                      THEN AbortWithStatusJSON(cx, 400, "Group is full")
                      ELSE cx))

AllowIfUserIsNotMember(cx) ==
  IF "obj" \notin cx.keys
    THEN Keep(InternalServerError(cx))
  ELSE IF IsMember(cx.obj, cx.user_id)
    THEN Keep(Return(AbortWithStatusJSON(
                       cx, 400, "User is a member of the group")))
  ELSE Keep(Next_(cx))

AllowIfUserIsNotOwner(cx) ==
  IF "obj" \notin cx.keys
    THEN Keep(InternalServerError(cx))
  ELSE IF IsOwner(cx.obj, cx.user_id)
    THEN Keep(Return(AbortWithStatusJSON(
                       cx, 400, "User is the owner of the group")))
  ELSE Keep(Next_(cx))

AllowIfUserIsOwner(cx) ==
  IF "obj" \notin cx.keys
    THEN Keep(InternalServerError(cx))
  ELSE IF ~IsOwner(cx.obj, cx.user_id)
    THEN Keep(Return(AbortWithStatusJSON(
                       cx, 400, "User is not the owner of the group")))
  ELSE Keep(Next_(cx))

AllowIfUserIsMember(cx) ==
  IF "obj" \notin cx.keys
    THEN Keep(InternalServerError(cx))
  ELSE IF ~IsMember(cx.obj, cx.user_id)
    THEN Keep(Return(AbortWithStatusJSON(
                       cx, 400, "User is not a member of the group")))
  ELSE Keep(Next_(cx))

\* AllowIfCorrectGroupPassword on a request whose body is b; the body is
\* read only when the group is private.
AllowIfCorrectGroupPassword(cx, b) ==
  LET c1 == [cx EXCEPT !.body = b]
  IN IF "obj" \notin cx.keys
       THEN Keep(Return(AbortWithStatusJSON(cx, 404, BodyNotFound)))
     ELSE IF ~IsPrivate(cx.obj)
       THEN Keep(Next_(cx))
     ELSE IF b.kind = "EOF"
       THEN Keep(Return(AbortWithStatusJSON(
                          c1, 400, "Group password is required")))
     ELSE IF b.kind # "json"
       THEN Keep(InternalServerError(c1))
     ELSE IF ValidatePassword(cx.obj, b.g.Password) # "nil"
       THEN Keep(Return(AbortWithStatusJSON(c1, 403, "Incorrect password")))
     ELSE Keep(Next_(c1))

AllowIfGroupIsOpen(cx) ==
  IF "obj" \notin cx.keys
    THEN Keep(InternalServerError(cx))
  ELSE IF ~IsOpen(cx.obj)
    THEN Keep(Return(AbortWithStatusJSON(cx, 400, "Group is not open")))
  ELSE Keep(Next_(cx))

(* ----------------------------- endpoints ------------------------------ *)

\* The tail every endpoint shares after a database write r: a fatal log
\* ends the process, an error is answered 500, success is answered code.
Written(cx, r, code) ==
  IF r.exit THEN Fatal(cx, r.err)
  ELSE IF r.err # "nil" THEN Keep(InternalServerError(Failed(cx, r.err)))
  ELSE Out(Return(JSON(cx, code)), r.db, users, FALSE)

CloseGroup(cx, e) ==
  LET g == [cx.obj EXCEPT !.Status = StatusClosed]
  IN Written(cx, GroupUpdate(groups, g, e), 200)

\* CreateGroup; e1 and e2 are the outcomes of InitDB and of Create.
CreateGroup(cx, e1, e2) ==
  LET req == cx.req.g
      ferrs == ValidateForCreate(req)
      i == InitDB(e1)
      g == [req EXCEPT !.OwnerID = cx.user_id]
  IN IF ferrs # <<>>
       THEN Keep(Return(AbortWithFieldErrors(
                          cx, 400, "The new group is not valid", ferrs)))
     ELSE IF i.exit
       THEN Fatal(cx, i.err)
     ELSE IF i.err # "nil"
       THEN Keep(InternalServerError(Failed(cx, i.err)))
     ELSE Written(cx, GroupCreate(groups, g, e2), 201)

JoinGroup(cx, e) ==
  LET g == [cx.obj EXCEPT !.Members = @ \cup {cx.user_id}]
  IN Written(cx, GroupUpdate(groups, g, e), 200)

\* KickFromGroup; e1, e2, e3 are the outcomes of InitDB, of User.Retrieve
\* and of RemoveMember.
KickFromGroup(cx, e1, e2, e3) ==
  LET i == InitDB(e1)
      r == UserRetrieve(users, cx.req.u, e2)
  IN IF i.exit
       THEN Fatal(cx, i.err)
     ELSE IF i.err # "nil"
       THEN Keep(InternalServerError(Failed(cx, i.err)))
     ELSE IF r.exit
       THEN Fatal(cx, r.err)
     ELSE IF r.err # "nil"
       THEN IF Contains(r.err, "record not found")
              THEN Keep(Return(AbortWithStatusJSON(
                                 Failed(cx, r.err), 404, BodyNotFound)))
              ELSE Keep(InternalServerError(Failed(cx, r.err)))
     ELSE IF ~IsMember(cx.obj, r.u.ID)
       THEN Keep(Return(AbortWithStatusJSON(
                          cx, 400, "The user to kick is not a member")))
     ELSE Written(cx, RemoveMember(groups, cx.obj, r.u, e3), 200)

\* LeaveGroup; e1, e2, e3 as for KickFromGroup.
LeaveGroup(cx, e1, e2, e3) ==
  LET i == InitDB(e1)
      r == UserRetrieve(users, [ZeroUser EXCEPT !.ID = cx.user_id], e2)
  IN IF i.exit
       THEN Fatal(cx, i.err)
     ELSE IF i.err # "nil"
       THEN Keep(InternalServerError(Failed(cx, i.err)))
     ELSE IF r.exit
       THEN Fatal(cx, r.err)
     ELSE IF r.err # "nil"
       THEN Keep(InternalServerError(Failed(cx, r.err)))
     ELSE Written(cx, RemoveMember(groups, cx.obj, r.u, e3), 200)

\* ListGroups; e1 and e2 are the outcomes of InitDB and of List.
ListGroups(cx, e1, e2) ==
  LET i == InitDB(e1)
      r == GroupList(groups, e2)
  IN IF i.exit
       THEN Fatal(cx, i.err)
     ELSE IF i.err # "nil"
       THEN Keep(InternalServerError(Failed(cx, i.err)))
     ELSE IF r.exit
       THEN Fatal(cx, r.err)
     ELSE IF r.err # "nil"
       THEN Keep(InternalServerError(Failed(cx, r.err)))
     ELSE Keep(Return(JSON(cx, 200)))

RetrieveGroup(cx) == Keep(Return(JSON(cx, 200)))

UpdateGroup(cx, e) ==
  LET req == cx.req.g
      g == [cx.obj EXCEPT
              !.Title = IF req.Title # Empty THEN req.Title ELSE @,
              !.Description =
                 IF req.Description # Empty THEN req.Description ELSE @,
              !.MaxSize = IF req.MaxSize # 0 THEN req.MaxSize ELSE @]
  IN Written(cx, GroupUpdate(groups, g, e), 200)

UpdateGroupPassword(cx, e) ==
  LET g == [cx.obj EXCEPT !.Password = cx.req.g.Password]
  IN Written(cx, GroupUpdate(groups, g, e), 200)

\* SignUp; e1 and e2 are the outcomes of InitDB and of Create.  The branch
\* for the username's uniqueness error comes after Create's fatal log.
SignUp(cx, e1, e2) ==
  LET u == cx.req.u
      ferrs == ValidateForSignUp(u)
      i == InitDB(e1)
      r == UserCreate(users, u, e2)
  IN IF ferrs # <<>>
       THEN Keep(Return(AbortWithFieldErrors(
                          cx, 400, "The request body contains errors", ferrs)))
     ELSE IF i.exit
       THEN Fatal(cx, i.err)
     ELSE IF i.err # "nil"
       THEN Keep(InternalServerError(Failed(cx, i.err)))
     ELSE IF r.exit
       THEN Fatal(cx, r.err)
     ELSE IF r.err # "nil"
       THEN IF r.err = "UNIQUE constraint failed: users.username"
              THEN Keep(Return(AbortWithStatusJSON(
                                 Failed(cx, r.err), 400, "User already exists.")))
              ELSE Keep(InternalServerError(Failed(cx, r.err)))
     ELSE Out(Return(JSON(cx, 201)), groups, r.db, FALSE)

\* SignIn; e1 and e2 are the outcomes of InitDB and of RetrieveByUsername.
SignIn(cx, e1, e2) ==
  LET u == cx.req.u
      i == InitDB(e1)
      r == RetrieveByUsername(users, u, e2)
  IN IF i.exit
       THEN Fatal(cx, i.err)
     ELSE IF i.err # "nil"
       THEN Keep(InternalServerError(Failed(cx, i.err)))
     ELSE IF r.err # "nil"
       THEN IF Contains(r.err, "record not found")
              THEN Keep(Return(AbortWithStatusJSON(
                          Failed(cx, r.err), 401,
                          "username or password is invalid.")))
              ELSE Keep(InternalServerError(Failed(cx, r.err)))
     ELSE IF ~CompareHashAndPassword(r.u.Password, u.Password)
       THEN Keep(Return(AbortWithStatusJSON(
                          cx, 401, "username or password is invalid.")))
     ELSE Keep(Return(JSON(cx, 201)))

(* --------------------------- request inputs --------------------------- *)

\* The Authorization headers a client can send: none, one without a space,
\* and "Bearer <token>" with a token that is malformed, signed with a wrong
\* key, signed with a non-HMAC method, or signed by buildResponseWithToken
\* (only for a stored user, whose id is its user_id claim).
Headers(udb) ==
  {NoHeader, [kind |-> "nospace", user_id |-> 0],
   [kind |-> "malformed", user_id |-> 0]}
  \cup {[kind |-> k, user_id |-> i] :
          k \in {"badsig", "nonhmac", "valid"}, i \in DOMAIN udb}

\* The :id parameters: not a number, a stored group's id, and one id past.
Params(gdb) ==
  {[err |-> TRUE, n |-> 0]}
  \cup {[err |-> FALSE, n |-> i] : i \in 1..(Len(gdb) + 1)}

\* A JSON body binding to a Group / to a User with these fields.
GroupJSON(title, desc, status, pw, max, owner) ==
  [kind |-> "json",
   g |-> [ID |-> 0, Title |-> title, Description |-> desc, Status |-> status,
          Password |-> pw, MaxSize |-> max, OwnerID |-> owner,
          Members |-> {}],
   u |-> ZeroUser]

UserJSON(id, name, pw) ==
  [kind |-> "json", g |-> ZeroGroup,
   u |-> [ID |-> id, Username |-> name, Password |-> pw]]

\* No body at all (binding fails with EOF) and a body that is not JSON.
EOFBody == [kind |-> "EOF", g |-> ZeroGroup, u |-> ZeroUser]

BadBody == [kind |-> "malformed", g |-> ZeroGroup, u |-> ZeroUser]

TitleA == Str(1, "a")

TitleB == Str(1, "b")

DescD == Str(1, "d")

DescE == Str(1, "e")

PwP == Str(1, "p")

PwQ == Str(1, "q")

\* The username of the i-th account, and sign-up passwords.
Name(i) == Str(i, "n")

GoodPw == Str(minPasswordLen, "s")

ShortPw == Str(minPasswordLen - 1, "s")

CreateBodies ==
  {GroupJSON(TitleA, DescD, 0, Empty, minSize, 0),
   GroupJSON(TitleA, DescD, 0, PwP, minSize, 0),
   GroupJSON(TitleA, DescD, 7, Empty, minSize, 1),
   GroupJSON(Empty, Empty, 0, Empty, 0, 0),
   GroupJSON(Str(maxTitleLen + 1, "a"), DescD, 0, Empty, minSize - 1, 0),
   GroupJSON(TitleA, Str(maxDescLen + 1, "d"), 0, Empty, maxSize + 1, 0),
   EOFBody}

UpdateBodies ==
  {GroupJSON(TitleB, Empty, 0, Empty, 2, 0),
   GroupJSON(Empty, Empty, 0, Empty, 1, 0),
   GroupJSON(Empty, DescE, 7, PwQ, 0, 1),
   BadBody}

PasswordBodies ==
  {GroupJSON(Empty, Empty, 0, PwP, 0, 0),
   GroupJSON(Empty, Empty, 0, Empty, 0, 0),
   EOFBody}

JoinBodies ==
  {GroupJSON(Empty, Empty, 0, PwP, 0, 0),
   GroupJSON(Empty, Empty, 0, PwQ, 0, 0),
   GroupJSON(Empty, Empty, 0, Empty, 0, 0),
   EOFBody, BadBody}

KickBodies(udb) ==
  {UserJSON(i, Empty, Empty) : i \in 1..(Len(udb) + 1)} \cup {EOFBody}

SignUpBodies(udb) ==
  {UserJSON(0, Name(Len(udb) + 1), GoodPw),
   UserJSON(0, Name(1), GoodPw),
   UserJSON(0, Empty, Empty),
   UserJSON(0, Str(maxUsernameLen + 1, "n"), ShortPw),
   BadBody}

SignInBodies(udb) ==
  {UserJSON(0, Name(1), GoodPw),
   UserJSON(0, Name(1), ShortPw),
   UserJSON(0, Name(Len(udb) + 1), GoodPw),
   EOFBody}

\* The bodies sent to a route.
Bodies(route, udb) ==
  CASE route = "create" -> CreateBodies
    [] route = "update" -> UpdateBodies
    [] route = "password" -> PasswordBodies
    [] route = "join" -> JoinBodies
    [] route = "kick" -> KickBodies(udb)
    [] route = "sign-up" -> SignUpBodies(udb)
    [] route = "sign-in" -> SignInBodies(udb)
    [] OTHER -> {EOFBody}

(* ------------------------------ the server ---------------------------- *)

Init ==
  /\ users = <<>>
  /\ groups = <<>>
  /\ c = NewContext("none")
  /\ pre = [users |-> <<>>, groups |-> <<>>]
  /\ alive = TRUE
  /\ conns = [i \in 1..MaxConns |-> NewContext("none")]

\* The handler named h is the one the engine runs next.
Running(h) == alive /\ Current(c) = h

\* A handler has run: its effects, and its name appended to ran.
Commit(out) ==
  /\ c' = [out.c EXCEPT !.ran = Append(@, Current(c))]
  /\ groups' = out.groups
  /\ users' = out.users
  /\ alive' = ~out.exit
  /\ UNCHANGED <<pre, conns>>

\* The engine takes the next request once the one before is finished, and
\* starts its chain with c.Next().  New accounts and groups stop at the
\* bounds.
ServeHTTP ==
  /\ Running("none")
  /\ \E r \in Routes :
       /\ r = "sign-up" => Len(users) < MaxUsers
       /\ r = "create" => Len(groups) < MaxGroups
       /\ c' = Next_(NewContext(r))
       /\ pre' = [users |-> users, groups |-> groups]
       /\ UNCHANGED <<users, groups, alive, conns>>

RunAuthenticateRequests ==
  /\ Running("AuthenticateRequests")
  /\ \E h \in Headers(users) : Commit(AuthenticateRequests(c, h))

RunGroupObject ==
  /\ Running("GroupObject")
  /\ \E p \in Params(groups), e1, e2 \in DbOutcomes :
       Commit(GroupObject(c, p, e1, e2))

RunGroupRequestBody ==
  /\ Running("GroupRequestBody")
  /\ \E b \in Bodies(c.route, users) : Commit(GroupRequestBody(c, b))

RunUserRequestBody ==
  /\ Running("UserRequestBody")
  /\ \E b \in Bodies(c.route, users) : Commit(UserRequestBody(c, b))

RunAllowIfGroupIsNotFull ==
  /\ Running("AllowIfGroupIsNotFull")
  /\ Commit(AllowIfGroupIsNotFull(c))

RunAllowIfUserIsNotMember ==
  /\ Running("AllowIfUserIsNotMember")
  /\ Commit(AllowIfUserIsNotMember(c))

RunAllowIfUserIsNotOwner ==
  /\ Running("AllowIfUserIsNotOwner")
  /\ Commit(AllowIfUserIsNotOwner(c))

RunAllowIfUserIsOwner ==
  /\ Running("AllowIfUserIsOwner")
  /\ Commit(AllowIfUserIsOwner(c))

RunAllowIfUserIsMember ==
  /\ Running("AllowIfUserIsMember")
  /\ Commit(AllowIfUserIsMember(c))

RunAllowIfCorrectGroupPassword ==
  /\ Running("AllowIfCorrectGroupPassword")
  /\ \E b \in Bodies(c.route, users) :
       Commit(AllowIfCorrectGroupPassword(c, b))

RunAllowIfGroupIsOpen ==
  /\ Running("AllowIfGroupIsOpen")
  /\ Commit(AllowIfGroupIsOpen(c))

RunCloseGroup ==
  /\ Running("CloseGroup")
  /\ \E e \in DbOutcomes : Commit(CloseGroup(c, e))

RunCreateGroup ==
  /\ Running("CreateGroup")
  /\ \E e1, e2 \in DbOutcomes : Commit(CreateGroup(c, e1, e2))

RunJoinGroup ==
  /\ Running("JoinGroup")
  /\ \E e \in DbOutcomes : Commit(JoinGroup(c, e))

RunKickFromGroup ==
  /\ Running("KickFromGroup")
  /\ \E e1, e2, e3 \in DbOutcomes : Commit(KickFromGroup(c, e1, e2, e3))

RunLeaveGroup ==
  /\ Running("LeaveGroup")
  /\ \E e1, e2, e3 \in DbOutcomes : Commit(LeaveGroup(c, e1, e2, e3))

RunListGroups ==
  /\ Running("ListGroups")
  /\ \E e1, e2 \in DbOutcomes : Commit(ListGroups(c, e1, e2))

RunRetrieveGroup ==
  /\ Running("RetrieveGroup")
  /\ Commit(RetrieveGroup(c))

RunUpdateGroup ==
  /\ Running("UpdateGroup")
  /\ \E e \in DbOutcomes : Commit(UpdateGroup(c, e))

RunUpdateGroupPassword ==
  /\ Running("UpdateGroupPassword")
  /\ \E e \in DbOutcomes : Commit(UpdateGroupPassword(c, e))

RunSignUp ==
  /\ Running("SignUp")
  /\ \E e1, e2 \in DbOutcomes : Commit(SignUp(c, e1, e2))

RunSignIn ==
  /\ Running("SignIn")
  /\ \E e1, e2 \in DbOutcomes : Commit(SignIn(c, e1, e2))

Next ==
  \/ ServeHTTP
  \/ RunAuthenticateRequests
  \/ RunGroupObject
  \/ RunGroupRequestBody
  \/ RunUserRequestBody
  \/ RunAllowIfGroupIsNotFull
  \/ RunAllowIfUserIsNotMember
  \/ RunAllowIfUserIsNotOwner
  \/ RunAllowIfUserIsOwner
  \/ RunAllowIfUserIsMember
  \/ RunAllowIfCorrectGroupPassword
  \/ RunAllowIfGroupIsOpen
  \/ RunCloseGroup
  \/ RunCreateGroup
  \/ RunJoinGroup
  \/ RunKickFromGroup
  \/ RunLeaveGroup
  \/ RunListGroups
  \/ RunRetrieveGroup
  \/ RunUpdateGroup
  \/ RunUpdateGroupPassword
  \/ RunSignUp
  \/ RunSignIn

Spec == Init /\ [][Next]_vars

(* ----------------------- the server, concurrent ----------------------- *)

\* The accounts n sign-ups leave behind.
RECURSIVE SignedUp(_)
SignedUp(n) ==
  IF n = 0 THEN <<>>
  ELSE UserCreate(SignedUp(n - 1), UserJSON(0, Name(n), GoodPw).u, "nil").db

\* The groups table after the first account has created a group from body b
\* and the accounts in ms have joined it.
CreatedAndJoined(b, ms) ==
  LET db == GroupCreate(<<>>, [b.g EXCEPT !.OwnerID = 1], "nil").db
  IN GroupUpdate(db, [db[1] EXCEPT !.Members = ms], "nil").db

\* The members the group starts with: one free slot, two, or none.
StartMembers == {{2, 3, 4}, {2, 3}, {2, 3, 4, 5}}

\* The server after MaxAccounts sign-ups, a create and some joins, with no
\* request in flight.
InitConcurrent ==
  /\ users = SignedUp(MaxAccounts)
  /\ \E b \in {x \in CreateBodies :
                  x.kind = "json" /\ ValidateForCreate(x.g) = <<>>
                  /\ x.g.Status = StatusOpen},
        ms \in StartMembers :
       groups = CreatedAndJoined(b, ms)
  /\ pre = [users |-> users, groups |-> groups]
  /\ c = NewContext("none")
  /\ alive = TRUE
  /\ conns = [i \in 1..MaxConns |-> NewContext("none")]

\* The handler named h is the one connection i's goroutine runs next.
ConnRunning(i, h) == alive /\ Current(conns[i]) = h

\* A handler has run on connection i.
ConnCommit(i, out) ==
  /\ conns' = [conns EXCEPT
                 ![i] = [out.c EXCEPT !.ran = Append(@, Current(conns[i]))]]
  /\ groups' = out.groups
  /\ users' = out.users
  /\ alive' = ~out.exit
  /\ UNCHANGED <<c, pre>>

\* Connection i's goroutine takes a join request once the one before is
\* finished.
ServeJoin(i) ==
  /\ ConnRunning(i, "none")
  /\ conns' = [conns EXCEPT ![i] = Next_(NewContext("join"))]
  /\ UNCHANGED <<users, groups, c, pre, alive>>

ConnAuthenticateRequests(i) ==
  /\ ConnRunning(i, "AuthenticateRequests")
  /\ \E h \in Headers(users) :
       ConnCommit(i, AuthenticateRequests(conns[i], h))

ConnGroupObject(i) ==
  /\ ConnRunning(i, "GroupObject")
  /\ \E p \in Params(groups), e1, e2 \in DbOutcomes :
       ConnCommit(i, GroupObject(conns[i], p, e1, e2))

ConnAllowIfGroupIsNotFull(i) ==
  /\ ConnRunning(i, "AllowIfGroupIsNotFull")
  /\ ConnCommit(i, AllowIfGroupIsNotFull(conns[i]))

ConnAllowIfUserIsNotMember(i) ==
  /\ ConnRunning(i, "AllowIfUserIsNotMember")
  /\ ConnCommit(i, AllowIfUserIsNotMember(conns[i]))

ConnAllowIfUserIsNotOwner(i) ==
  /\ ConnRunning(i, "AllowIfUserIsNotOwner")
  /\ ConnCommit(i, AllowIfUserIsNotOwner(conns[i]))

ConnAllowIfGroupIsOpen(i) ==
  /\ ConnRunning(i, "AllowIfGroupIsOpen")
  /\ ConnCommit(i, AllowIfGroupIsOpen(conns[i]))

ConnAllowIfCorrectGroupPassword(i) ==
  /\ ConnRunning(i, "AllowIfCorrectGroupPassword")
  /\ \E b \in Bodies("join", users) :
       ConnCommit(i, AllowIfCorrectGroupPassword(conns[i], b))

ConnJoinGroup(i) ==
  /\ ConnRunning(i, "JoinGroup")
  /\ \E e \in DbOutcomes : ConnCommit(i, JoinGroup(conns[i], e))

NextConcurrent ==
  \E i \in 1..MaxConns :
    \/ ServeJoin(i)
    \/ ConnAuthenticateRequests(i)
    \/ ConnGroupObject(i)
    \/ ConnAllowIfGroupIsNotFull(i)
    \/ ConnAllowIfUserIsNotMember(i)
    \/ ConnAllowIfUserIsNotOwner(i)
    \/ ConnAllowIfGroupIsOpen(i)
    \/ ConnAllowIfCorrectGroupPassword(i)
    \/ ConnJoinGroup(i)

SpecConcurrent == InitConcurrent /\ [][NextConcurrent]_vars

(* ------------------------ vocabulary of the claims -------------------- *)

\* The request in c has run its chain to the end (or was aborted).
Finished == c.route # "none" /\ Current(c) = "none"

\* Handler h has run for the request in c.
HasRun(h) == \E k \in DOMAIN c.ran : c.ran[k] = h

\* The place of handler h in the chain of c's route (0 when it is not in it).
Pos(h) ==
  LET chain == Handlers(c.route)
  IN IF \E k \in DOMAIN chain : chain[k] = h
       THEN CHOOSE k \in DOMAIN chain : chain[k] = h
       ELSE 0

\* The stored users and groups are as they were when the request arrived.
Unchanged == users = pre.users /\ groups = pre.groups

\* The request names a stored group, which GroupObject has loaded.
OnStoredGroup ==
  /\ "obj" \in c.keys
  /\ ~c.param.err
  /\ c.param.n \in DOMAIN pre.groups

\* That group as stored when the request arrived, and as stored now.
Before == pre.groups[c.param.n]

Now == groups[c.param.n]

(* C1: every stored group has at most MaxSize - 1 members (one slot of the
   capacity is the owner's), after any sequence of completed requests. *)
CapacityInvariant ==
  \A i \in DOMAIN groups :
    Cardinality(groups[i].Members) <= groups[i].MaxSize - 1

(* C2: every stored group's status is open (0) or closed (-100). *)
StatusInvariant ==
  \A i \in DOMAIN groups : groups[i].Status \in {StatusOpen, StatusClosed}

(* C3: closed is terminal: a step of the server never takes a stored group
   whose status is closed to any other status, so a closed group is never
   open again. *)
ClosedIsTerminal ==
  [][\A i \in DOMAIN groups :
       groups[i].Status = StatusClosed =>
         i \in DOMAIN groups' /\ groups'[i].Status = StatusClosed]_vars

\* C3's case: a request that passed the owner check has been processed to
\* its end on a group that was closed when it arrived.
ClosedGroupRequested ==
  /\ Finished
  /\ c.route \in {"close", "update", "password"}
  /\ OnStoredGroup
  /\ Before.Status = StatusClosed
  /\ c.user_id = Before.OwnerID
  /\ Now.Status = StatusClosed

\* The permission checks.
Checks ==
  {"AllowIfGroupIsNotFull", "AllowIfUserIsNotMember", "AllowIfUserIsNotOwner",
   "AllowIfUserIsOwner", "AllowIfUserIsMember", "AllowIfCorrectGroupPassword",
   "AllowIfGroupIsOpen"}

\* Check h refuses the request in c (its group, its user, its body).
Refuses(h) ==
  CASE h = "AllowIfGroupIsNotFull" ->
         Cardinality(c.obj.Members) = c.obj.MaxSize - 1
    [] h = "AllowIfUserIsNotMember" -> c.user_id \in c.obj.Members
    [] h = "AllowIfUserIsNotOwner" -> c.user_id = c.obj.OwnerID
    [] h = "AllowIfUserIsOwner" -> c.user_id # c.obj.OwnerID
    [] h = "AllowIfUserIsMember" -> c.user_id \notin c.obj.Members
    [] h = "AllowIfGroupIsOpen" -> c.obj.Status # StatusOpen
    [] h = "AllowIfCorrectGroupPassword" ->
         /\ c.obj.Password # Empty
         /\ c.body.kind # "unread"
         /\ c.body.kind = "json" => c.body.g.Password # c.obj.Password
    [] OTHER -> FALSE

\* The HTTP error of check h.
ErrorOf(h) ==
  CASE h = "AllowIfGroupIsNotFull" -> <<400, "Group is full">>
    [] h = "AllowIfUserIsNotMember" -> <<400, "User is a member of the group">>
    [] h = "AllowIfUserIsNotOwner" -> <<400, "User is the owner of the group">>
    [] h = "AllowIfUserIsOwner" ->
         <<400, "User is not the owner of the group">>
    [] h = "AllowIfUserIsMember" ->
         <<400, "User is not a member of the group">>
    [] h = "AllowIfGroupIsOpen" -> <<400, "Group is not open">>
    [] h = "AllowIfCorrectGroupPassword" ->
         IF c.body.kind = "EOF" THEN <<400, "Group password is required">>
         ELSE IF c.body.kind = "json" THEN <<403, "Incorrect password">>
         ELSE <<500, BodyInternalServerError>>
    [] OTHER -> <<0, "">>

(* C4: the handlers of a route run in the order the route registers them,
   and a permission check that refuses the request ends it: the response is
   that check's error, no later check and no endpoint runs, and the stored
   users and groups are unchanged. *)
ChecksShortCircuitInOrder ==
  LET chain == Handlers(c.route)
      n == Len(c.ran)
  IN /\ n <= Len(chain)
     /\ c.ran = SubSeq(chain, 1, n)
     /\ \A k \in 1..n :
          (/\ chain[k] \in Checks
           /\ "obj" \in c.keys
           /\ Refuses(chain[k]))
          => /\ n = k
             /\ Finished
             /\ <<c.status, c.msg>> = ErrorOf(chain[k])
             /\ c.by = chain[k]
             /\ Unchanged

\* C4's case: a member's join on a full group that is not open has been
\* answered by the first registered check, AllowIfGroupIsNotFull.
FullClosedJoinByMember ==
  /\ Finished
  /\ c.route = "join"
  /\ OnStoredGroup
  /\ Cardinality(Before.Members) = Before.MaxSize - 1
  /\ Before.Status = StatusClosed
  /\ c.user_id \in Before.Members
  /\ c.msg = "Group is full"

(* C5: a request during which a database call fails (other than a handled
   "record not found") is answered 500, and the server goes on serving. *)
DbErrorAnswered500 ==
  c.dberr = "io" => alive /\ c.status = 500

(* C6: a group is private exactly when its stored password is not empty; a
   join adds the requester to a private group only if the body's password
   equals the stored one; a wrong password is answered 403 and a missing
   body 400, the stored groups unchanged; the password check never rejects
   a join to a group that is not private. *)
PasswordGuardsPrivateJoin ==
  (c.route = "join" /\ OnStoredGroup) =>
    /\ IsPrivate(c.obj) <=> Before.Password # Empty
    /\ (Before.Password # Empty /\ groups # pre.groups) =>
         c.body.kind = "json" /\ c.body.g.Password = Before.Password
    /\ (Before.Password # Empty /\ HasRun("AllowIfCorrectGroupPassword")) =>
         /\ c.body.kind = "EOF" =>
              c.status = 400 /\ Finished /\ groups = pre.groups
         /\ (c.body.kind = "json" /\ c.body.g.Password # Before.Password) =>
              c.status = 403 /\ Finished /\ groups = pre.groups
    /\ Before.Password = Empty => c.by # "AllowIfCorrectGroupPassword"

\* C6's case: a join to a private group with a wrong password was refused.
WrongPasswordJoin ==
  /\ Finished
  /\ c.route = "join"
  /\ OnStoredGroup
  /\ Before.Password # Empty
  /\ c.body.kind = "json"
  /\ c.body.g.Password # Before.Password
  /\ c.status = 403

\* The checks that have let the request in c pass used identity uid.
ChecksUsed(uid) ==
  /\ Len(c.ran) > Pos("AllowIfUserIsOwner") /\ Pos("AllowIfUserIsOwner") > 0
       => c.obj.OwnerID = uid
  /\ Len(c.ran) > Pos("AllowIfUserIsNotOwner")
       /\ Pos("AllowIfUserIsNotOwner") > 0
       => c.obj.OwnerID # uid
  /\ Len(c.ran) > Pos("AllowIfUserIsMember") /\ Pos("AllowIfUserIsMember") > 0
       => uid \in c.obj.Members
  /\ Len(c.ran) > Pos("AllowIfUserIsNotMember")
       /\ Pos("AllowIfUserIsNotMember") > 0
       => uid \notin c.obj.Members

(* C7: every /groups route runs AuthenticateRequests first; a request with
   no Authorization header is answered 401, one whose token does not verify
   is rejected (401 or 500), and neither runs another handler or changes
   what is stored; a request that passes carries in its context the user_id
   claim of its token, the identity the ownership and membership checks
   use. *)
AuthenticationGuards ==
  (c.route \in PrivateRoutes /\ Len(c.ran) >= 1) =>
    /\ c.ran[1] = "AuthenticateRequests"
    /\ c.token.kind = "none" => c.status = 401
    /\ c.token.kind # "valid" =>
         /\ c.status \in {401, 500}
         /\ c.ran = <<"AuthenticateRequests">>
         /\ Finished
         /\ Unchanged
    /\ Len(c.ran) > 1 =>
         /\ c.token.kind = "valid"
         /\ "user_id" \in c.keys
         /\ c.user_id = c.token.user_id
         /\ ChecksUsed(c.token.user_id)

\* C7's case: a request whose token carries a stored user's id under a
\* signature that does not verify was rejected.
ForgedTokenRejected ==
  /\ Finished
  /\ c.route \in PrivateRoutes
  /\ c.token.kind = "badsig"
  /\ c.token.user_id \in DOMAIN users
  /\ c.status = 500

\* The routes only the owner may use.
OwnerRoutes == {"close", "update", "password", "kick"}

(* C8, as claimed: a close, update, update-password or kick request by a
   user who is not the group's owner is answered 400 "User is not the owner
   of the group" and leaves the group unchanged (stated for groups whose
   status is open or closed). *)
NonOwnerToldNotOwner ==
  (/\ Finished
   /\ c.route \in OwnerRoutes
   /\ OnStoredGroup
   /\ Before.Status \in {StatusOpen, StatusClosed}
   /\ c.user_id # Before.OwnerID)
  => /\ c.status = 400
     /\ c.msg = "User is not the owner of the group"
     /\ groups = pre.groups

(* C8, amended: a close, update, update-password or kick request changes
   the stored group only if the requester is its owner; a request by any
   other user leaves the groups unchanged and is answered 400: "User is not
   the owner of the group", except that a kick on a group that is not open
   is answered "Group is not open", the check its route registers first. *)
OwnerOnly ==
  (c.route \in OwnerRoutes /\ OnStoredGroup) =>
    /\ groups # pre.groups => c.user_id = Before.OwnerID
    /\ c.user_id # Before.OwnerID =>
         /\ groups = pre.groups
         /\ Finished =>
              /\ c.status = 400
              /\ c.msg = IF c.route = "kick" /\ Before.Status # StatusOpen
                           THEN "Group is not open"
                           ELSE "User is not the owner of the group"

\* C8's case: a kick by a user who is not the owner, on a closed group.
NonOwnerKickOnClosed ==
  /\ Finished
  /\ c.route = "kick"
  /\ OnStoredGroup
  /\ Before.Status = StatusClosed
  /\ c.user_id # Before.OwnerID
  /\ c.msg = "Group is not open"

\* The routes that act on a stored group.
GroupActionRoutes == {"close", "update", "password", "join", "leave", "kick"}

(* C9: a group whose stored status is not open is frozen: a close, update,
   update-password, join, leave or kick request on it leaves its stored row
   and members unchanged, and is answered 400 "Group is not open" by
   AllowIfGroupIsOpen unless a check registered earlier has rejected it. *)
ClosedGroupFrozen ==
  (/\ c.route \in GroupActionRoutes
   /\ OnStoredGroup
   /\ Before.Status # StatusOpen)
  => /\ Now = Before
     /\ groups = pre.groups
     /\ HasRun("AllowIfGroupIsOpen") =>
          /\ c.status = 400
          /\ c.msg = "Group is not open"
          /\ c.by = "AllowIfGroupIsOpen"
          /\ Finished
     /\ Finished =>
          /\ c.status >= 400
          /\ Pos(c.by) <= Pos("AllowIfGroupIsOpen")
          /\ Pos(c.by) > 0

\* C9's case: the owner's update of a closed group was refused.
ClosedGroupUpdateRefused ==
  /\ Finished
  /\ c.route = "update"
  /\ OnStoredGroup
  /\ Before.Status = StatusClosed
  /\ c.user_id = Before.OwnerID
  /\ c.msg = "Group is not open"

(* C10: a request naming a group id that is not stored is answered 404 with
   BodyNotFound, runs no endpoint, changes nothing stored, and leaves the
   server serving. *)
MissingGroupAnswered404 ==
  (/\ HasRun("GroupObject")
   /\ ~c.param.err
   /\ c.param.n \notin DOMAIN pre.groups
   /\ c.dberr # "io")
  => /\ alive
     /\ c.status = 404
     /\ c.msg = BodyNotFound
     /\ Finished
     /\ Unchanged

(* ------------------------- joins and removals -------------------------- *)

\* Two rows agree on every column (the members apart).
SameColumns(a, b) == [a EXCEPT !.Members = {}] = [b EXCEPT !.Members = {}]

\* The password check lets the request in c pass: the group is not private,
\* or the body carries the stored password.
PasswordPasses ==
  \/ Before.Password = Empty
  \/ c.body.kind = "json" /\ c.body.g.Password = Before.Password

(* C11: a join succeeds (200) only when the group has a free member slot
   (fewer than MaxSize - 1 members), is open, the requester is neither a
   member nor the owner, and the password check passes; on success the
   stored members are exactly the old members and the requester, every
   other column unchanged; nothing is stored without success; a join by a
   member or by the owner leaves the members unchanged and is answered
   400. *)
JoinAddsRequesterToFreeSlot ==
  (c.route = "join" /\ OnStoredGroup) =>
    /\ c.status = 200 =>
         /\ Cardinality(Before.Members) < Before.MaxSize - 1
         /\ Before.Status = StatusOpen
         /\ c.user_id \notin Before.Members
         /\ c.user_id # Before.OwnerID
         /\ PasswordPasses
         /\ Now.Members = Before.Members \cup {c.user_id}
         /\ SameColumns(Now, Before)
    /\ groups # pre.groups => c.status = 200
    /\ (c.user_id \in Before.Members \/ c.user_id = Before.OwnerID) =>
         /\ Now.Members = Before.Members
         /\ Finished => c.status = 400

\* The user a removal request is about: the requester of a leave, the user
\* whose id the body of a kick carries.
Target == IF c.route = "leave" THEN c.user_id ELSE c.body.u.ID

(* C12: a removal removes exactly one user.  A leave or kick succeeds (200)
   only on an open group and for a target who is a stored user and a member
   (the requester of a leave; the user the body names, at the owner's
   request, for a kick); on success the stored members are the old members
   without the target, every other column and the users unchanged; nothing
   is stored without success.  A kick naming a stored user who is not a
   member, and a leave by a non-member, leave everything unchanged and are
   answered 400; the kick's message, when the owner sent it for an open
   group, is "The user to kick is not a member". *)
RemovalRemovesExactlyOne ==
  (c.route \in {"leave", "kick"} /\ OnStoredGroup) =>
    /\ users = pre.users
    /\ c.status = 200 =>
         /\ Before.Status = StatusOpen
         /\ Target \in DOMAIN pre.users
         /\ Target \in Before.Members
         /\ c.route = "kick" => c.user_id = Before.OwnerID
         /\ Now.Members = Before.Members \ {Target}
         /\ SameColumns(Now, Before)
    /\ groups # pre.groups => c.status = 200
    /\ (/\ c.route = "kick"
        /\ Target \in DOMAIN pre.users
        /\ Target \notin Before.Members) =>
         /\ groups = pre.groups
         /\ Finished =>
              /\ c.status = 400
              /\ (c.user_id = Before.OwnerID /\ Before.Status = StatusOpen)
                   => c.msg = "The user to kick is not a member"
    /\ (c.route = "leave" /\ c.user_id \notin Before.Members) =>
         /\ groups = pre.groups
         /\ Finished => c.status = 400

\* C12's case: the owner has kicked one of the group's two members.
OneOfTwoMembersKicked ==
  /\ Finished
  /\ c.route = "kick"
  /\ OnStoredGroup
  /\ c.status = 200
  /\ Cardinality(Before.Members) = 2
  /\ Cardinality(Now.Members) = 1
  /\ Target \notin Now.Members

(* ------------------------------ creation ------------------------------- *)

\* The fields of a create body the claim calls offending.
Offending(g) ==
  {f \in {"title"} : g.Title = Empty \/ Len(g.Title) > 50}
  \cup {f \in {"description"} :
          g.Description = Empty \/ Len(g.Description) > 200}
  \cup {f \in {"max_size"} : g.MaxSize \notin 5..200}

(* C13: CreateGroup validates before it stores.  Nothing is stored before
   CreateGroup runs; a body with an empty title, a title longer than 50, an
   empty description, a description longer than 200 or a max_size outside
   5..200 is answered 400 with exactly one field error for each offending
   field, and no group is stored; a valid body (the database answering)
   is answered 201 and stores exactly one new group, the groups before it
   unchanged, whose owner is the authenticated requester whatever owner_id
   the body carries. *)
CreateValidatesBeforeStoring ==
  c.route = "create" =>
    /\ users = pre.users
    /\ ~HasRun("CreateGroup") => groups = pre.groups
    /\ (HasRun("CreateGroup") /\ Offending(c.body.g) # {}) =>
         /\ c.status = 400
         /\ Len(c.ferrs) = Cardinality(Offending(c.body.g))
         /\ {c.ferrs[k] : k \in DOMAIN c.ferrs} = Offending(c.body.g)
         /\ groups = pre.groups
    /\ (HasRun("CreateGroup") /\ Offending(c.body.g) = {}
          /\ c.dberr = "nil") =>
         /\ c.status = 201
         /\ Len(groups) = Len(pre.groups) + 1
         /\ SubSeq(groups, 1, Len(pre.groups)) = pre.groups
         /\ groups[Len(groups)].OwnerID = c.token.user_id

\* C13's case: a valid create whose body names another user as owner has
\* stored a group owned by the requester.
CreatedWithForeignOwnerID ==
  /\ Finished
  /\ c.route = "create"
  /\ c.status = 201
  /\ c.body.g.OwnerID \in DOMAIN users
  /\ c.body.g.OwnerID # c.token.user_id
  /\ Len(groups) = Len(pre.groups) + 1
  /\ groups[Len(groups)].OwnerID = c.token.user_id

(* --------------------------- concurrent joins -------------------------- *)

\* Connection i carries a join request whose GroupObject read the group
\* with exactly one free member slot.
ReadOneFreeSlot(i) ==
  /\ conns[i].route = "join"
  /\ "obj" \in conns[i].keys
  /\ conns[i].obj.Status = StatusOpen
  /\ Cardinality(conns[i].obj.Members) = conns[i].obj.MaxSize - 2

(* C14: capacity holds under interleaving.  Of two join requests by
   different users that read the same open group with exactly one free
   member slot and are processed concurrently, at most one succeeds, and
   the stored member count never exceeds MaxSize - 1. *)
InterleavedJoinsKeepCapacity ==
  /\ \A g \in DOMAIN groups :
       Cardinality(groups[g].Members) < groups[g].MaxSize
  /\ \A i, j \in 1..MaxConns :
       (/\ i # j
        /\ ReadOneFreeSlot(i)
        /\ ReadOneFreeSlot(j)
        /\ conns[i].param.n = conns[j].param.n
        /\ conns[i].user_id # conns[j].user_id)
       => ~(conns[i].status = 200 /\ conns[j].status = 200)

====
